---- MODULE Spec2Model ----
(***************************************************************************)
(* Model of the S3 bucket scanner (src/s3-bucket-scanner.go, func main).   *)
(* main is one sequential procedure: load the SDK configuration, list the  *)
(* buckets, and for every bucket that EXCLUDED_BUCKETS does not name issue  *)
(* a fixed sequence of get/list calls, filling a BucketInfo that is        *)
(* appended to bucketInfos; at the end create bucket_info.json and encode  *)
(* bucketInfos into it.  Every statement that calls out of the process is  *)
(* one action; pc names the statement that runs next.                      *)
(*                                                                         *)
(* Strings that the program inspects character by character (bucket names, *)
(* the EXCLUDED_BUCKETS value) are sequences of one-character strings.     *)
(* An error message is a sequence of words, and strings.Contains on it is  *)
(* the test that one of its words is the marker.                           *)
(*                                                                         *)
(* The basic variant (src/main.go, func main) is modelled over the same    *)
(* variables by the actions named Basic..., specification BasicSpec.       *)
(***************************************************************************)
EXTENDS Integers, Sequences, FiniteSets, TLC

\* Bounds of the model: the length of the bucket listing, the length of the
\* EXCLUDED_BUCKETS value, the number of configurations of one kind on a bucket,
\* and the number of provider answers in a run that are an expected-absence
\* error or a non-empty ID list.
MaxBuckets == 3
MaxExclLen == 2
MaxIds == 2
MaxDeviations == 1

VARIABLES
    pc,          \* the statement of main that runs next, or "Done" / "Fatal"
    account,     \* the provider's answer to ListBuckets: the listing
    env,         \* the process environment: EXCLUDED_BUCKETS
    buckets,     \* resp.Buckets
    idx,         \* position of the range loop over resp.Buckets (1-based)
    bucketInfo,  \* the BucketInfo of the current iteration
    bucketInfos, \* the Report
    pending,     \* the IDs the current inner range loop has not fetched yet
    calls,       \* the calls main has issued so far, in order
    file,        \* bucket_info.json as this run has left it
    exitCode,    \* the process's exit status, -1 while it runs
    err,         \* the error of the last call, NoErr if it had none
    deviations   \* provider answers so far that were an expected-absence
                 \* error or a non-empty ID list (bounded by MaxDeviations)

vars == <<pc, account, env, buckets, idx, bucketInfo, bucketInfos, pending,
          calls, file, exitCode, err, deviations>>

----
\* Strings

Chars == {"b", ","}

RECURSIVE StringsUpTo(_)
StringsUpTo(n) ==
    IF n = 0 THEN {<<>>}
    ELSE LET shorter == StringsUpTo(n - 1)
         IN  shorter \cup {Append(s, c) : s \in {t \in shorter : Len(t) = n - 1}, c \in Chars}

\* The bucket names of the account: non-empty, and unique in a listing.
BucketNames == {<<"a">>, <<"b">>, <<"c">>}

RECURSIVE DistinctSeqs(_, _)
DistinctSeqs(S, n) ==
    IF n = 0 THEN {<<>>}
    ELSE LET shorter == DistinctSeqs(S, n - 1)
         IN  shorter \cup {Append(s, x) : s \in {t \in shorter : Len(t) = n - 1},
                                          x \in S}

Range(s) == {s[i] : i \in DOMAIN s}

NoDuplicates(s) == \A i, j \in DOMAIN s : s[i] = s[j] => i = j

Listings == {s \in DistinctSeqs(BucketNames, MaxBuckets) : NoDuplicates(s)}

Ids == 1..MaxIds

IdLists == {s \in DistinctSeqs(Ids, MaxIds) : NoDuplicates(s)}

\* os.Getenv: the value of the variable, "" when it is not set.
Getenv(e) == IF e.set THEN e.value ELSE <<>>

\* strings.Split(s, sep) for a one-character sep: the substrings between the
\* separators; a string without separator (the empty one too) gives one element.
\* (A Split that stops at the first separator.)
SplitFirst(s, sep) ==
    IF \A i \in DOMAIN s : s[i] # sep THEN <<s>>
    ELSE LET k == CHOOSE i \in DOMAIN s : s[i] = sep /\ \A j \in 1..(i - 1) : s[j] # sep
         IN  <<SubSeq(s, 1, k - 1)>>

RECURSIVE Split(_, _)
Split(s, sep) ==
    IF \A i \in DOMAIN s : s[i] # sep THEN <<s>>
    ELSE LET k == CHOOSE i \in DOMAIN s : s[i] = sep /\ \A j \in 1..(i - 1) : s[j] # sep
         IN  <<SubSeq(s, 1, k - 1)>> \o Split(SubSeq(s, k + 1, Len(s)), sep)

\* (A Contains that takes an element that v starts with for v.)
SlicesContainsPrefix(s, v) ==
    \E i \in DOMAIN s : Len(s[i]) <= Len(v) /\ SubSeq(v, 1, Len(s[i])) = s[i]

\* slices.Contains: some element equals v.
SlicesContains(s, v) == \E i \in DOMAIN s : s[i] = v

\* The condition of the if at the head of the loop body.
Excluded(name) == SlicesContains(Split(Getenv(env), ","), name)

----
\* BucketInfo

PtrFields == {"AccelerateConfig", "ACL", "CORSConfig", "EncryptionConfig",
              "LifecycleConfig", "Location", "LoggingConfig", "NotificationConfig",
              "OwnershipControlsConfig", "Policy", "PolicyStatus",
              "ReplicationConfig", "RequestPaymentConfig", "TaggingConfig",
              "VersioningConfig"}

SliceFields == {"AnalyticsConfig", "IntelligentTieringConfig", "InventoryConfig",
                "MetricsConfig"}

\* What a call returns on success: an opaque snapshot, told apart by the
\* operation, the bucket and the configuration ID (0: the call takes none).
Output(op, bucket, id) == [op |-> op, bucket |-> bucket, id |-> id]

NoOutput == Output("", <<>>, 0)

NilPtr == [nil |-> TRUE, val |-> NoOutput]

Ptr(out) == [nil |-> FALSE, val |-> out]

NilSlice == [nil |-> TRUE, elems |-> <<>>]

\* (An append that puts x first.)
GoAppendFront(s, x) == [nil |-> FALSE, elems |-> <<x>> \o s.elems]

\* append(s, x): never nil, x after the elements of s.
GoAppend(s, x) == [nil |-> FALSE, elems |-> Append(s.elems, x)]

\* BucketInfo{Name: name}: every other field has its zero value, nil.
NewBucketInfo(name) ==
    [f \in PtrFields \cup SliceFields \cup {"Name"} |->
        IF f = "Name" THEN name
        ELSE IF f \in SliceFields THEN NilSlice
        ELSE NilPtr]

\* No BucketInfo is in scope outside the loop body.
NoBucketInfo == NewBucketInfo(<<>>)

----
\* Errors

NoErr == <<>>

\* err.Error() of a failed call: the words of the message, the provider's error
\* code among them.
ErrMsg(code) == <<"api error", code>>

StringsContains(msg, word) == \E i \in DOMAIN msg : msg[i] = word

\* The calls whose error test has a second conjunct, and the marker it looks for.
Marker ==
    [op \in {"GetBucketCors", "GetBucketLifecycleConfiguration",
             "GetBucketOwnershipControls", "GetBucketPolicy", "GetBucketPolicyStatus",
             "GetBucketReplication", "GetBucketTagging"} |->
        CASE op = "GetBucketCors" -> "NoSuchCORSConfiguration"
          [] op = "GetBucketLifecycleConfiguration" -> "NoSuchLifecycleConfiguration"
          [] op = "GetBucketOwnershipControls" -> "OwnershipControlsNotFoundError"
          [] op = "GetBucketPolicy" -> "NoSuchBucketPolicy"
          [] op = "GetBucketPolicyStatus" -> "NoSuchBucketPolicy"
          [] op = "GetBucketReplication" -> "ReplicationConfigurationNotFoundError"
          [] op = "GetBucketTagging" -> "NoSuchTagSet"]

Markers == {Marker[op] : op \in DOMAIN Marker}

\* The errors a call may fail with: access denied, and for a call with a marker
\* the "not configured" code of that call and that of another call.
ErrMsgs(op) ==
    {ErrMsg("AccessDenied")} \cup
    (IF op \in DOMAIN Marker
     THEN {ErrMsg(Marker[op]), ErrMsg(CHOOSE m \in Markers : m # Marker[op])}
     ELSE {})

\* (An error test without the marker conjunct, and one that only logs.)
FatalErrAlways(op, e) == e # NoErr

FatalErrNever(op, e) == FALSE

\* The condition under which the call site of op runs log.Fatalf:
\*   err != nil                                        (no marker)
\*   err != nil && !strings.Contains(err.Error(), m)   (marker m)

FatalErr(op, e) ==
    /\ e # NoErr
    /\ op \in DOMAIN Marker => ~StringsContains(e, Marker[op])

----
\* bucket_info.json and its encoding

\* encoding/json on a BucketInfo field: a nil pointer and a nil slice are null,
\* a pointer is the object it points to, a non-nil slice is an array.
JsonField(f, v) ==
    IF v.nil THEN [kind |-> "null", items |-> <<>>]
    ELSE IF f \in SliceFields THEN [kind |-> "array", items |-> v.elems]
    ELSE [kind |-> "object", items |-> <<v.val>>]

\* encoder.Encode(bucketInfos): an array with one object per BucketInfo.
JsonEncode(infos) ==
    [i \in DOMAIN infos |->
        [name |-> infos[i].Name,
         fields |-> [f \in PtrFields \cup SliceFields |-> JsonField(f, infos[i][f])]]]

\* The file as the run has left it: "untouched" (whatever was at the path before
\* the run, a file or none), "truncated" (os.Create made it empty), "partial"
\* (a write stopped part-way), "complete" (content is the whole encoding).
FileIs(status, content) == [status |-> status, content |-> content]

----
\* The initial state: main has not run a statement yet.

Environments ==
    {[set |-> FALSE, value |-> <<>>]} \cup
    {[set |-> TRUE, value |-> v] : v \in StringsUpTo(MaxExclLen)}

Init ==
    /\ pc = "LoadDefaultConfig"
    /\ account \in Listings
    /\ env \in Environments
    /\ buckets = <<>>
    /\ idx = 0
    /\ bucketInfo = NoBucketInfo
    /\ bucketInfos = <<>>
    /\ pending = <<>>
    /\ calls = <<>>
    /\ file = FileIs("untouched", <<>>)
    /\ exitCode = -1
    /\ err = NoErr
    /\ deviations = 0

----
\* Steps of main

\* The record of a call: the operation, the bucket and the configuration ID it
\* is issued for, and for a list call the IDs it returned.
Call(op, bucket, id, ids) == [op |-> op, bucket |-> bucket, id |-> id, ids |-> ids]

Issue(op, bucket, id) == calls' = Append(calls, Call(op, bucket, id, <<>>))

\* (A log call followed by a plain return from main.)
FatalfReturns == pc' = "Done" /\ exitCode' = 0

\* log.Fatalf: the message is logged and the process exits with status 1.
Fatalf == pc' = "Fatal" /\ exitCode' = 1

\* (A loop that leaves out the last bucket.)
LoopHeadEarly(i, n) == IF i + 1 < n THEN "Filter" ELSE "os.Create"

\* The statement that follows the end of the loop body for position i of n: the
\* body for the next bucket, or os.Create after the last one.
LoopHead(i, n) == IF i < n THEN "Filter" ELSE "os.Create"

\* config.LoadDefaultConfig, and s3.NewFromConfig on success.
LoadDefaultConfig ==
    /\ pc = "LoadDefaultConfig"
    /\ Issue("LoadDefaultConfig", <<>>, 0)
    /\ \/ err' = NoErr /\ pc' = "ListBuckets" /\ UNCHANGED exitCode
       \/ err' \in ErrMsgs("LoadDefaultConfig") /\ Fatalf
    /\ UNCHANGED <<account, env, buckets, idx, bucketInfo, bucketInfos, pending,
                   file, deviations>>

\* client.ListBuckets; on success the range loop starts.
ListBuckets ==
    /\ pc = "ListBuckets"
    /\ Issue("ListBuckets", <<>>, 0)
    /\ \/ /\ err' = NoErr
          /\ buckets' = account
          /\ bucketInfos' = <<>>
          /\ idx' = 0
          /\ pc' = LoopHead(0, Len(account))
          /\ UNCHANGED exitCode
       \/ err' \in ErrMsgs("ListBuckets") /\ Fatalf /\ UNCHANGED <<buckets, bucketInfos, idx>>
    /\ UNCHANGED <<account, env, bucketInfo, pending, file, deviations>>

\* (A loop head without the exclusion test.)
FilterNever ==
    /\ pc = "Filter"
    /\ idx' = idx + 1
    /\ bucketInfo' = NewBucketInfo(buckets[idx + 1])
    /\ pc' = "GetBucketAccelerateConfiguration"
    /\ UNCHANGED <<account, env, buckets, bucketInfos, pending, calls, file,
                   exitCode, err, deviations>>

\* The head of the loop body: the next bucket is taken, skipped if
\* EXCLUDED_BUCKETS names it, and given a fresh BucketInfo otherwise.
Filter ==
    /\ pc = "Filter"
    /\ idx' = idx + 1
    /\ IF Excluded(buckets[idx + 1])
       THEN pc' = LoopHead(idx + 1, Len(buckets)) /\ UNCHANGED bucketInfo
       ELSE /\ bucketInfo' = NewBucketInfo(buckets[idx + 1])
            /\ pc' = "GetBucketAccelerateConfiguration"
    /\ UNCHANGED <<account, env, buckets, bucketInfos, pending, calls, file,
                   exitCode, err, deviations>>

\* What the provider may answer to a single-valued call: the output, or no
\* output and an error.
GetResponses(op, bucket) ==
    {[err |-> NoErr, out |-> Ptr(Output(op, bucket, 0))]} \cup
    {[err |-> e, out |-> NilPtr] : e \in ErrMsgs(op)}

\* ... to a list call: the IDs of the configurations, or none and an error.
ListResponses(op) ==
    {[err |-> NoErr, ids |-> l] : l \in IdLists} \cup
    {[err |-> e, ids |-> <<>>] : e \in ErrMsgs(op)}

\* An answer MaxDeviations counts: an error the call site lets pass, or a
\* non-empty ID list.
Deviates(op, r) ==
    \/ r.err # NoErr /\ ~FatalErr(op, r.err)
    \/ "ids" \in DOMAIN r /\ r.ids # <<>>

Budget(op, r) ==
    /\ Deviates(op, r) => deviations < MaxDeviations
    /\ deviations' = IF Deviates(op, r) THEN deviations + 1 ELSE deviations

\* A single-valued call: op is issued for the current bucket; a fatal error ends
\* the process, any other outcome assigns the response (nil with an error) to
\* the field and goes on to the statement next.
Get(op, field, next) ==
    /\ pc = op
    /\ Issue(op, buckets[idx], 0)
    /\ \E r \in GetResponses(op, buckets[idx]) :
        /\ err' = r.err
        /\ Budget(op, r)
        /\ IF FatalErr(op, r.err)
           THEN Fatalf /\ UNCHANGED bucketInfo
           ELSE /\ bucketInfo' = [bucketInfo EXCEPT ![field] = r.out]
                /\ pc' = next
                /\ UNCHANGED exitCode
    /\ UNCHANGED <<account, env, buckets, idx, bucketInfos, pending, file>>

\* The list call of a multi-valued sub-resource: an error is fatal; otherwise
\* the inner range loop starts over the returned configurations, at the
\* statement fetch, or is skipped to next when there is none.
List(op, fetch, next) ==
    /\ pc = op
    /\ \E r \in ListResponses(op) :
        /\ calls' = Append(calls, Call(op, buckets[idx], 0, r.ids))
        /\ err' = r.err
        /\ Budget(op, r)
        /\ IF FatalErr(op, r.err)
           THEN Fatalf /\ UNCHANGED pending
           ELSE /\ pending' = r.ids
                /\ pc' = IF r.ids # <<>> THEN fetch ELSE next
                /\ UNCHANGED exitCode
    /\ UNCHANGED <<account, env, buckets, idx, bucketInfo, bucketInfos, file>>

\* One iteration of an inner range loop: the next configuration is fetched by
\* ID; an error is fatal, otherwise the response is appended to the field and
\* the loop goes on with the IDs that are left.
Fetch(op, field, next) ==
    /\ pc = op
    /\ Issue(op, buckets[idx], Head(pending))
    /\ \E r \in {[err |-> NoErr, out |-> Output(op, buckets[idx], Head(pending))]} \cup
                {[err |-> e, out |-> NoOutput] : e \in ErrMsgs(op)} :
        /\ err' = r.err
        /\ Budget(op, r)
        /\ IF FatalErr(op, r.err)
           THEN Fatalf /\ UNCHANGED <<bucketInfo, pending>>
           ELSE /\ bucketInfo' = [bucketInfo EXCEPT ![field] = GoAppend(@, r.out)]
                /\ pending' = Tail(pending)
                /\ pc' = IF Tail(pending) # <<>> THEN op ELSE next
                /\ UNCHANGED exitCode
    /\ UNCHANGED <<account, env, buckets, idx, bucketInfos, file>>

\* The call sites of the loop body, in the order of the source.
GetBucketAccelerateConfiguration ==
    Get("GetBucketAccelerateConfiguration", "AccelerateConfig", "GetBucketAcl")

GetBucketAcl ==
    Get("GetBucketAcl", "ACL", "ListBucketAnalyticsConfigurations")

ListBucketAnalyticsConfigurations ==
    List("ListBucketAnalyticsConfigurations", "GetBucketAnalyticsConfiguration",
         "GetBucketCors")

GetBucketAnalyticsConfiguration ==
    Fetch("GetBucketAnalyticsConfiguration", "AnalyticsConfig", "GetBucketCors")

GetBucketCors ==
    Get("GetBucketCors", "CORSConfig", "GetBucketEncryption")

GetBucketEncryption ==
    Get("GetBucketEncryption", "EncryptionConfig",
        "ListBucketIntelligentTieringConfigurations")

ListBucketIntelligentTieringConfigurations ==
    List("ListBucketIntelligentTieringConfigurations",
         "GetBucketIntelligentTieringConfiguration", "ListBucketInventoryConfigurations")

GetBucketIntelligentTieringConfiguration ==
    Fetch("GetBucketIntelligentTieringConfiguration", "IntelligentTieringConfig",
          "ListBucketInventoryConfigurations")

ListBucketInventoryConfigurations ==
    List("ListBucketInventoryConfigurations", "GetBucketInventoryConfiguration",
         "GetBucketLifecycleConfiguration")

GetBucketInventoryConfiguration ==
    Fetch("GetBucketInventoryConfiguration", "InventoryConfig",
          "GetBucketLifecycleConfiguration")

GetBucketLifecycleConfiguration ==
    Get("GetBucketLifecycleConfiguration", "LifecycleConfig", "GetBucketLocation")

GetBucketLocation ==
    Get("GetBucketLocation", "Location", "GetBucketLogging")

GetBucketLogging ==
    Get("GetBucketLogging", "LoggingConfig", "ListBucketMetricsConfigurations")

ListBucketMetricsConfigurations ==
    List("ListBucketMetricsConfigurations", "GetBucketMetricsConfiguration",
         "GetBucketNotificationConfiguration")

GetBucketMetricsConfiguration ==
    Fetch("GetBucketMetricsConfiguration", "MetricsConfig",
          "GetBucketNotificationConfiguration")

GetBucketNotificationConfiguration ==
    Get("GetBucketNotificationConfiguration", "NotificationConfig",
        "GetBucketOwnershipControls")

GetBucketOwnershipControls ==
    Get("GetBucketOwnershipControls", "OwnershipControlsConfig", "GetBucketPolicy")

GetBucketPolicy ==
    Get("GetBucketPolicy", "Policy", "GetBucketPolicyStatus")

GetBucketPolicyStatus ==
    Get("GetBucketPolicyStatus", "PolicyStatus", "GetBucketReplication")

GetBucketReplication ==
    Get("GetBucketReplication", "ReplicationConfig", "GetBucketRequestPayment")

GetBucketRequestPayment ==
    Get("GetBucketRequestPayment", "RequestPaymentConfig", "GetBucketTagging")

GetBucketTagging ==
    Get("GetBucketTagging", "TaggingConfig", "GetBucketVersioning")

GetBucketVersioning ==
    Get("GetBucketVersioning", "VersioningConfig", "append")

\* (An append that puts the BucketInfo first in the Report.)
AppendBucketInfoFront ==
    /\ pc = "append"
    /\ bucketInfos' = <<bucketInfo>> \o bucketInfos
    /\ bucketInfo' = NoBucketInfo
    /\ pc' = LoopHead(idx, Len(buckets))
    /\ UNCHANGED <<account, env, buckets, idx, pending, calls, file, exitCode,
                   deviations, err>>

\* bucketInfos = append(bucketInfos, bucketInfo), the last statement of the
\* loop body.
AppendBucketInfo ==
    /\ pc = "append"
    /\ bucketInfos' = Append(bucketInfos, bucketInfo)
    /\ bucketInfo' = NoBucketInfo
    /\ pc' = LoopHead(idx, Len(buckets))
    /\ UNCHANGED <<account, env, buckets, idx, pending, calls, file, exitCode,
                   deviations, err>>

\* os.Create("bucket_info.json"): the file is made, or emptied if it exists; on
\* an error it is left as it was and the process ends.
OsCreate ==
    /\ pc = "os.Create"
    /\ Issue("os.Create", <<>>, 0)
    /\ \/ /\ err' = NoErr
          /\ file' = FileIs("truncated", <<>>)
          /\ pc' = "Encode"
          /\ UNCHANGED exitCode
       \/ /\ err' = <<"open bucket_info.json", "permission denied">>
          /\ Fatalf
          /\ UNCHANGED file
    /\ UNCHANGED <<account, env, buckets, idx, bucketInfo, bucketInfos, pending,
                   deviations>>

\* encoder.Encode(bucketInfos): the value is marshalled and written to the file
\* in one Write. The Write may fail after none or some of the bytes, which ends
\* the process with the file as the Write left it.
Encode ==
    /\ pc = "Encode"
    /\ Issue("Encode", <<>>, 0)
    /\ \/ /\ err' = NoErr
          /\ file' = FileIs("complete", JsonEncode(bucketInfos))
          /\ pc' = "Println"
          /\ UNCHANGED exitCode
       \/ /\ err' = <<"write bucket_info.json", "no space left on device">>
          /\ file' \in {file, FileIs("partial", <<>>)}
          /\ Fatalf
    /\ UNCHANGED <<account, env, buckets, idx, bucketInfo, bucketInfos, pending,
                   deviations>>

\* fmt.Println and the return from main: the deferred file.Close runs and the
\* process exits with status 0.
Println ==
    /\ pc = "Println"
    /\ Issue("Println", <<>>, 0)
    /\ pc' = "Done"
    /\ exitCode' = 0
    /\ UNCHANGED <<account, env, buckets, idx, bucketInfo, bucketInfos, pending,
                   file, deviations, err>>

Next ==
    \/ LoadDefaultConfig
    \/ ListBuckets
    \/ Filter
    \/ GetBucketAccelerateConfiguration
    \/ GetBucketAcl
    \/ ListBucketAnalyticsConfigurations
    \/ GetBucketAnalyticsConfiguration
    \/ GetBucketCors
    \/ GetBucketEncryption
    \/ ListBucketIntelligentTieringConfigurations
    \/ GetBucketIntelligentTieringConfiguration
    \/ ListBucketInventoryConfigurations
    \/ GetBucketInventoryConfiguration
    \/ GetBucketLifecycleConfiguration
    \/ GetBucketLocation
    \/ GetBucketLogging
    \/ ListBucketMetricsConfigurations
    \/ GetBucketMetricsConfiguration
    \/ GetBucketNotificationConfiguration
    \/ GetBucketOwnershipControls
    \/ GetBucketPolicy
    \/ GetBucketPolicyStatus
    \/ GetBucketReplication
    \/ GetBucketRequestPayment
    \/ GetBucketTagging
    \/ GetBucketVersioning
    \/ AppendBucketInfo
    \/ OsCreate
    \/ Encode
    \/ Println

Spec == Init /\ [][Next]_vars

\* main is one thread of control whose statements follow one another: as long as
\* a statement is left to run, one runs.
LiveSpec == Spec /\ WF_vars(Next)

----
\* The basic variant (main.go): the same run without the exclusion test, with
\* one call per sub-resource, and with a BucketInfo whose fields are all
\* pointers.

\* The fields of the basic BucketInfo other than the name.
BasicFields == PtrFields \cup SliceFields

\* BucketInfo{Name: name} of the basic variant: every other field is a nil
\* pointer.
BasicNewBucketInfo(name) ==
    [f \in BasicFields \cup {"Name"} |-> IF f = "Name" THEN name ELSE NilPtr]

BasicNoBucketInfo == BasicNewBucketInfo(<<>>)

\* encoding/json on the basic Report: a nil pointer is null, any other the object
\* it points to.
BasicJsonEncode(infos) ==
    [i \in DOMAIN infos |->
        [name |-> infos[i].Name,
         fields |-> [f \in BasicFields |->
                        IF infos[i][f].nil
                        THEN [kind |-> "null", items |-> <<>>]
                        ELSE [kind |-> "object", items |-> <<infos[i][f].val>>]]]]

\* The basic variant does not read the environment.
BasicInit ==
    /\ pc = "LoadDefaultConfig"
    /\ account \in Listings
    /\ env = [set |-> FALSE, value |-> <<>>]
    /\ buckets = <<>>
    /\ idx = 0
    /\ bucketInfo = BasicNoBucketInfo
    /\ bucketInfos = <<>>
    /\ pending = <<>>
    /\ calls = <<>>
    /\ file = FileIs("untouched", <<>>)
    /\ exitCode = -1
    /\ err = NoErr
    /\ deviations = 0

\* (A call site that ends the process on any error.)
BasicFatalErrAlways(op, e) == e # NoErr

\* Whether the call site of op ends the process on the error: log.Fatalf after
\* the accelerate-configuration and the ACL call, log.Printf after the others.
BasicFatalErr(op, e) ==
    /\ e # NoErr
    /\ op \in {"GetBucketAccelerateConfiguration", "GetBucketAcl"}

\* The statement that follows the end of the loop body for position i of n: the
\* body for the next bucket, or os.Create after the last one.
BasicLoopHead(i, n) == IF i < n THEN "BucketInfo" ELSE "os.Create"

\* config.LoadDefaultConfig, and s3.NewFromConfig on success.
BasicLoadDefaultConfig ==
    /\ pc = "LoadDefaultConfig"
    /\ Issue("LoadDefaultConfig", <<>>, 0)
    /\ \/ err' = NoErr /\ pc' = "ListBuckets" /\ UNCHANGED exitCode
       \/ err' \in ErrMsgs("LoadDefaultConfig") /\ Fatalf
    /\ UNCHANGED <<account, env, buckets, idx, bucketInfo, bucketInfos, pending,
                   file, deviations>>

\* client.ListBuckets; on success the range loop starts.
BasicListBuckets ==
    /\ pc = "ListBuckets"
    /\ Issue("ListBuckets", <<>>, 0)
    /\ \/ /\ err' = NoErr
          /\ buckets' = account
          /\ bucketInfos' = <<>>
          /\ idx' = 0
          /\ pc' = BasicLoopHead(0, Len(account))
          /\ UNCHANGED exitCode
       \/ err' \in ErrMsgs("ListBuckets") /\ Fatalf /\ UNCHANGED <<buckets, bucketInfos, idx>>
    /\ UNCHANGED <<account, env, bucketInfo, pending, file, deviations>>

\* The head of the loop body: the next bucket of the listing gets a fresh
\* BucketInfo with its name.
BasicBucketInfo ==
    /\ pc = "BucketInfo"
    /\ idx' = idx + 1
    /\ bucketInfo' = BasicNewBucketInfo(buckets[idx + 1])
    /\ pc' = "GetBucketAccelerateConfiguration"
    /\ UNCHANGED <<account, env, buckets, bucketInfos, pending, calls, file,
                   exitCode, err, deviations>>

\* An answer MaxDeviations counts: an error the call site only logs.
BasicDeviates(op, r) == r.err # NoErr /\ ~BasicFatalErr(op, r.err)

\* A call of the loop body: op is issued for the current bucket; on success the
\* response is assigned to the field; on an error the call site either ends the
\* process or logs the error and leaves the field as it is; unless the process
\* ended the statement next follows.
BasicGet(op, field, next) ==
    /\ pc = op
    /\ Issue(op, buckets[idx], 0)
    /\ \E r \in GetResponses(op, buckets[idx]) :
        /\ err' = r.err
        /\ BasicDeviates(op, r) => deviations < MaxDeviations
        /\ deviations' = IF BasicDeviates(op, r) THEN deviations + 1 ELSE deviations
        /\ IF BasicFatalErr(op, r.err)
           THEN Fatalf /\ UNCHANGED bucketInfo
           ELSE /\ bucketInfo' = IF r.err = NoErr
                                 THEN [bucketInfo EXCEPT ![field] = r.out]
                                 ELSE bucketInfo
                /\ pc' = next
                /\ UNCHANGED exitCode
    /\ UNCHANGED <<account, env, buckets, idx, bucketInfos, pending, file>>

BasicGetBucketAccelerateConfiguration ==
    BasicGet("GetBucketAccelerateConfiguration", "AccelerateConfig", "GetBucketAcl")

BasicGetBucketAcl ==
    BasicGet("GetBucketAcl", "ACL", "GetBucketAnalyticsConfiguration")

BasicGetBucketAnalyticsConfiguration ==
    BasicGet("GetBucketAnalyticsConfiguration", "AnalyticsConfig", "GetBucketCors")

BasicGetBucketCors ==
    BasicGet("GetBucketCors", "CORSConfig", "GetBucketEncryption")

BasicGetBucketEncryption ==
    BasicGet("GetBucketEncryption", "EncryptionConfig",
             "GetBucketIntelligentTieringConfiguration")

BasicGetBucketIntelligentTieringConfiguration ==
    BasicGet("GetBucketIntelligentTieringConfiguration", "IntelligentTieringConfig",
             "GetBucketInventoryConfiguration")

BasicGetBucketInventoryConfiguration ==
    BasicGet("GetBucketInventoryConfiguration", "InventoryConfig",
             "GetBucketLifecycleConfiguration")

BasicGetBucketLifecycleConfiguration ==
    BasicGet("GetBucketLifecycleConfiguration", "LifecycleConfig", "GetBucketLocation")

BasicGetBucketLocation ==
    BasicGet("GetBucketLocation", "Location", "GetBucketLogging")

BasicGetBucketLogging ==
    BasicGet("GetBucketLogging", "LoggingConfig", "GetBucketMetricsConfiguration")

BasicGetBucketMetricsConfiguration ==
    BasicGet("GetBucketMetricsConfiguration", "MetricsConfig",
             "GetBucketNotificationConfiguration")

BasicGetBucketNotificationConfiguration ==
    BasicGet("GetBucketNotificationConfiguration", "NotificationConfig",
             "GetBucketOwnershipControls")

BasicGetBucketOwnershipControls ==
    BasicGet("GetBucketOwnershipControls", "OwnershipControlsConfig", "GetBucketPolicy")

BasicGetBucketPolicy ==
    BasicGet("GetBucketPolicy", "Policy", "GetBucketPolicyStatus")

BasicGetBucketPolicyStatus ==
    BasicGet("GetBucketPolicyStatus", "PolicyStatus", "GetBucketReplication")

BasicGetBucketReplication ==
    BasicGet("GetBucketReplication", "ReplicationConfig", "GetBucketRequestPayment")

BasicGetBucketRequestPayment ==
    BasicGet("GetBucketRequestPayment", "RequestPaymentConfig", "GetBucketTagging")

BasicGetBucketTagging ==
    BasicGet("GetBucketTagging", "TaggingConfig", "GetBucketVersioning")

BasicGetBucketVersioning ==
    BasicGet("GetBucketVersioning", "VersioningConfig", "append")

\* bucketInfos = append(bucketInfos, bucketInfo), the end of the loop body.
BasicAppendBucketInfo ==
    /\ pc = "append"
    /\ bucketInfos' = Append(bucketInfos, bucketInfo)
    /\ bucketInfo' = BasicNoBucketInfo
    /\ pc' = BasicLoopHead(idx, Len(buckets))
    /\ UNCHANGED <<account, env, buckets, idx, pending, calls, file, exitCode,
                   deviations, err>>

\* os.Create("bucket_info.json"): the file is made, or emptied if it exists; on
\* an error it is left as it was and the process ends.
BasicOsCreate ==
    /\ pc = "os.Create"
    /\ Issue("os.Create", <<>>, 0)
    /\ \/ /\ err' = NoErr
          /\ file' = FileIs("truncated", <<>>)
          /\ pc' = "Encode"
          /\ UNCHANGED exitCode
       \/ /\ err' = <<"open bucket_info.json", "permission denied">>
          /\ Fatalf
          /\ UNCHANGED file
    /\ UNCHANGED <<account, env, buckets, idx, bucketInfo, bucketInfos, pending,
                   deviations>>

\* encoder.Encode(bucketInfos): the value is marshalled and written to the file
\* in one Write. The Write may fail after none or some of the bytes, which ends
\* the process with the file as the Write left it.
BasicEncode ==
    /\ pc = "Encode"
    /\ Issue("Encode", <<>>, 0)
    /\ \/ /\ err' = NoErr
          /\ file' = FileIs("complete", BasicJsonEncode(bucketInfos))
          /\ pc' = "Println"
          /\ UNCHANGED exitCode
       \/ /\ err' = <<"write bucket_info.json", "no space left on device">>
          /\ file' \in {file, FileIs("partial", <<>>)}
          /\ Fatalf
    /\ UNCHANGED <<account, env, buckets, idx, bucketInfo, bucketInfos, pending,
                   deviations>>

\* fmt.Println and the return from main: the deferred file.Close runs and the
\* process exits with status 0.
BasicPrintln ==
    /\ pc = "Println"
    /\ Issue("Println", <<>>, 0)
    /\ pc' = "Done"
    /\ exitCode' = 0
    /\ UNCHANGED <<account, env, buckets, idx, bucketInfo, bucketInfos, pending,
                   file, deviations, err>>

BasicNext ==
    \/ BasicLoadDefaultConfig
    \/ BasicListBuckets
    \/ BasicBucketInfo
    \/ BasicGetBucketAccelerateConfiguration
    \/ BasicGetBucketAcl
    \/ BasicGetBucketAnalyticsConfiguration
    \/ BasicGetBucketCors
    \/ BasicGetBucketEncryption
    \/ BasicGetBucketIntelligentTieringConfiguration
    \/ BasicGetBucketInventoryConfiguration
    \/ BasicGetBucketLifecycleConfiguration
    \/ BasicGetBucketLocation
    \/ BasicGetBucketLogging
    \/ BasicGetBucketMetricsConfiguration
    \/ BasicGetBucketNotificationConfiguration
    \/ BasicGetBucketOwnershipControls
    \/ BasicGetBucketPolicy
    \/ BasicGetBucketPolicyStatus
    \/ BasicGetBucketReplication
    \/ BasicGetBucketRequestPayment
    \/ BasicGetBucketTagging
    \/ BasicGetBucketVersioning
    \/ BasicAppendBucketInfo
    \/ BasicOsCreate
    \/ BasicEncode
    \/ BasicPrintln

BasicSpec == BasicInit /\ [][BasicNext]_vars

----
\* Properties

\* The statements after the loop over resp.Buckets.
AfterLoop == {"os.Create", "Encode", "Println", "Done"}

\* The names of the records of the Report, in order.
ReportNames == [i \in DOMAIN bucketInfos |-> bucketInfos[i].Name]

\* e is an entry of the comma-separated value s: a stretch of s without comma
\* that a comma or an end of s bounds on either side.
IsEntry(s, e) ==
    \E i \in 1..(Len(s) + 1) : \E j \in (i - 1)..Len(s) :
        /\ e = SubSeq(s, i, j)
        /\ \A k \in i..j : s[k] # ","
        /\ i = 1 \/ s[i - 1] = ","
        /\ j = Len(s) \/ s[j + 1] = ","

\* EXCLUDED_BUCKETS names the bucket: the name is string-equal to an entry.
Named(name) == IsEntry(IF env.set THEN env.value ELSE <<>>, name)

NotNamed(name) == ~Named(name)

\* C1: once the loop over the listing has ended, the names of the Report are the
\* listing without the names that equal an entry of EXCLUDED_BUCKETS, in listing
\* order; while the loop runs they are that for the buckets done so far.
C1_ReportIsListingMinusExcluded ==
    /\ pc \in AfterLoop => ReportNames = SelectSeq(buckets, NotNamed)
    /\ \E k \in 0..Len(buckets) : ReportNames = SelectSeq(SubSeq(buckets, 1, k), NotNamed)

C1_Witness ==
    /\ pc = "Done"
    /\ buckets = << <<"a">>, <<"b">>, <<"c">> >>
    /\ env = [set |-> TRUE, value |-> <<"b">>]
    /\ ReportNames = << <<"a">>, <<"c">> >>

\* C2: no call is ever issued for a bucket that EXCLUDED_BUCKETS names, and the
\* step that meets such a bucket goes to the next bucket (or leaves the loop)
\* with no call in between.
C2_NoCallForExcluded ==
    /\ \A k \in DOMAIN buckets :
         Named(buckets[k]) => \A i \in DOMAIN calls : calls[i].bucket # buckets[k]
    /\ (idx >= 1 /\ Named(buckets[idx])) => pc \in {"Filter", "Fatal"} \cup AfterLoop

C2_Witness ==
    /\ pc = "Filter"
    /\ idx = 1
    /\ Named(buckets[1])
    /\ calls = <<Call("LoadDefaultConfig", <<>>, 0, <<>>), Call("ListBuckets", <<>>, 0, <<>>)>>

\* The list call and the fetch call of each multi-valued field.
ListOpOf ==
    [f \in SliceFields |->
        CASE f = "AnalyticsConfig" -> "ListBucketAnalyticsConfigurations"
          [] f = "IntelligentTieringConfig" -> "ListBucketIntelligentTieringConfigurations"
          [] f = "InventoryConfig" -> "ListBucketInventoryConfigurations"
          [] f = "MetricsConfig" -> "ListBucketMetricsConfigurations"]

FetchOpOf ==
    [f \in SliceFields |->
        CASE f = "AnalyticsConfig" -> "GetBucketAnalyticsConfiguration"
          [] f = "IntelligentTieringConfig" -> "GetBucketIntelligentTieringConfiguration"
          [] f = "InventoryConfig" -> "GetBucketInventoryConfiguration"
          [] f = "MetricsConfig" -> "GetBucketMetricsConfiguration"]

\* The IDs the list call of field f returned for the bucket.
Listed(name, f) ==
    LET i == CHOOSE i \in DOMAIN calls : calls[i].op = ListOpOf[f] /\ calls[i].bucket = name
    IN  calls[i].ids

\* The IDs the fetch calls of field f were issued for, in the order of the calls.
Fetched(name, f) ==
    LET IsFetch(c) == c.op = FetchOpOf[f] /\ c.bucket = name
        fetches == SelectSeq(calls, IsFetch)
    IN  [i \in DOMAIN fetches |-> fetches[i].id]

\* C3: in every record of the Report each multi-valued field has one entry per ID
\* its list call returned, entry i being what the fetch by the i-th listed ID
\* returned, and no fetch was issued for another ID.
C3_MultiValuedFieldFollowsListing ==
    \A k \in DOMAIN bucketInfos : \A f \in SliceFields :
        LET rec == bucketInfos[k]
            ids == Listed(rec.Name, f)
        IN  /\ Len(rec[f].elems) = Len(ids)
            /\ \A i \in DOMAIN ids : rec[f].elems[i] = Output(FetchOpOf[f], rec.Name, ids[i])
            /\ Fetched(rec.Name, f) = ids

C3_Witness ==
    /\ pc = "Done"
    /\ Len(bucketInfos) >= 1
    /\ Listed(bucketInfos[1].Name, "InventoryConfig") = <<2, 1>>
    /\ Len(bucketInfos[1].InventoryConfig.elems) = 2
    /\ bucketInfos[1].InventoryConfig.elems[1].id = 2

\* C4 (as the specification states it): in the written Report a multi-valued field
\* whose list call returned no ID is an empty array, not null.
C4_EmptyFieldIsEmptyArray ==
    file.status = "complete" =>
        \A k \in DOMAIN bucketInfos : \A f \in SliceFields :
            Listed(bucketInfos[k].Name, f) = <<>> =>
                /\ ~bucketInfos[k][f].nil
                /\ file.content[k].fields[f] = [kind |-> "array", items |-> <<>>]

\* The field each call with a marker fills.
FieldOfMarked ==
    [op \in DOMAIN Marker |->
        CASE op = "GetBucketCors" -> "CORSConfig"
          [] op = "GetBucketLifecycleConfiguration" -> "LifecycleConfig"
          [] op = "GetBucketOwnershipControls" -> "OwnershipControlsConfig"
          [] op = "GetBucketPolicy" -> "Policy"
          [] op = "GetBucketPolicyStatus" -> "PolicyStatus"
          [] op = "GetBucketReplication" -> "ReplicationConfig"
          [] op = "GetBucketTagging" -> "TaggingConfig"]

\* The calls of the loop body that are issued once for a bucket.
OncePerBucket ==
    {"GetBucketAccelerateConfiguration", "GetBucketAcl", "ListBucketAnalyticsConfigurations",
     "GetBucketCors", "GetBucketEncryption", "ListBucketIntelligentTieringConfigurations",
     "ListBucketInventoryConfigurations", "GetBucketLifecycleConfiguration",
     "GetBucketLocation", "GetBucketLogging", "ListBucketMetricsConfigurations",
     "GetBucketNotificationConfiguration", "GetBucketOwnershipControls", "GetBucketPolicy",
     "GetBucketPolicyStatus", "GetBucketReplication", "GetBucketRequestPayment",
     "GetBucketTagging", "GetBucketVersioning"}

LastCall == calls[Len(calls)]

\* The last call was one with a marker and failed with the marker in its error.
AbsenceReported ==
    /\ calls # <<>>
    /\ LastCall.op \in DOMAIN Marker
    /\ \E i \in DOMAIN err : err[i] = Marker[LastCall.op]

\* The calls issued for a bucket, as a set of operations.
OpsIssuedFor(name) == {calls[i].op : i \in {j \in DOMAIN calls : calls[j].bucket = name}}

\* C5: when a call with a marker reports the marker, the process goes on: the
\* field is nil, the next statement is the next call for the same bucket, and a
\* run that ends without a fatal error has issued every call for every bucket not
\* excluded and has a record for it, whatever was reported absent.
C5_AbsenceIsNotFatal ==
    /\ AbsenceReported =>
        /\ pc \in OncePerBucket
        /\ exitCode = -1
        /\ bucketInfo.Name = LastCall.bucket
        /\ bucketInfo[FieldOfMarked[LastCall.op]].nil
    /\ pc = "Done" =>
        \A k \in DOMAIN buckets :
            NotNamed(buckets[k]) =>
                /\ OncePerBucket \subseteq OpsIssuedFor(buckets[k])
                /\ \E j \in DOMAIN bucketInfos : bucketInfos[j].Name = buckets[k]

C5_Witness ==
    /\ pc = "Done"
    /\ Len(bucketInfos) = 2
    /\ bucketInfos[1].Name = <<"a">>
    /\ bucketInfos[1].CORSConfig.nil
    /\ ~bucketInfos[1].TaggingConfig.nil
    /\ ~bucketInfos[2].CORSConfig.nil

\* The last call was a call of the loop body and failed with an error that is
\* not the marker of its call site.
UnexpectedFailure ==
    /\ calls # <<>>
    /\ LastCall.bucket # <<>>
    /\ err # <<>>
    /\ ~AbsenceReported

\* C6: a call of the loop body that fails with an error without the marker of
\* its call site ends the process at once with status 1: nothing runs after it,
\* so no further call is issued and the file is never created or encoded.
C6_UnexpectedFailureIsFatal ==
    /\ UnexpectedFailure =>
        /\ pc = "Fatal"
        /\ exitCode = 1
        /\ file.status = "untouched"
        /\ ~ENABLED Next
    /\ pc = "Fatal" => exitCode = 1 /\ ~ENABLED Next /\ file.status # "complete"

C6_Witness ==
    /\ pc = "Fatal"
    /\ Len(bucketInfos) = 1
    /\ LastCall.op = "GetBucketInventoryConfiguration"
    /\ LastCall.bucket = buckets[2]
    /\ LastCall.id = 2
    /\ Len(buckets) = 3

\* How many calls of the operation the run has issued.
Count(op) == Cardinality({i \in DOMAIN calls : calls[i].op = op})

\* C7: os.Create and Encode are each called at most once, os.Create only when the
\* loop has gone through the whole listing and every bucket not excluded has its
\* record; a run that ends in a fatal error of any earlier call has not touched
\* the file and exits with status 1.
C7_FileWrittenOnceAtTheEnd ==
    /\ Count("os.Create") <= 1
    /\ Count("Encode") <= 1
    /\ Count("os.Create") = 1 =>
        /\ Count("ListBuckets") = 1
        /\ idx = Len(buckets)
        /\ ReportNames = SelectSeq(buckets, NotNamed)
    /\ Count("os.Create") = 0 => file.status = "untouched"
    /\ Count("Encode") = 0 => file.status \in {"untouched", "truncated"}
    /\ (pc = "Fatal" /\ LastCall.op \notin {"os.Create", "Encode"}) =>
        /\ Count("os.Create") = 0
        /\ file.status = "untouched"
        /\ exitCode = 1

C7_Witness ==
    /\ pc = "Fatal"
    /\ LastCall.op = "ListBuckets"
    /\ account # <<>>
    /\ file.status = "untouched"
    /\ exitCode = 1

\* C8 (as the specification states it): a run that has ended has left the file
\* untouched or holding the whole encoding of its Report, and has exited with
\* status 1 unless the file holds the encoding.
C8_WriteIsAllOrNothing ==
    exitCode # -1 =>
        \/ file.status = "untouched" /\ exitCode = 1
        \/ file = FileIs("complete", JsonEncode(bucketInfos)) /\ exitCode = 0

EmptyExclusion == ~env.set \/ env.value = <<>>

\* The statements of the loop body after its head.
Body == OncePerBucket \cup {FetchOpOf[f] : f \in SliceFields} \cup {"append"}

\* C9: with EXCLUDED_BUCKETS unset or empty the head of the loop body never
\* skips: every bucket the loop has reached is in the body or has its record, and
\* after the loop the names of the Report are the listing.
C9_EmptyExclusionExcludesNothing ==
    EmptyExclusion =>
        /\ ReportNames = SubSeq(buckets, 1, Len(bucketInfos))
        /\ pc \in Body => Len(bucketInfos) = idx - 1
        /\ pc = "Filter" => Len(bucketInfos) = idx
        /\ pc \in AfterLoop => ReportNames = buckets

C9_Witness ==
    /\ pc = "Done"
    /\ env = [set |-> TRUE, value |-> <<>>]
    /\ Len(buckets) = 3
    /\ ReportNames = buckets

\* The order of the calls in a run: the two calls before the loop, for each
\* bucket in listing order the calls of the body in source order (a fetch call
\* right after its list call), then the three calls after the loop.
BodyOrder ==
    <<"GetBucketAccelerateConfiguration", "GetBucketAcl",
      "ListBucketAnalyticsConfigurations", "GetBucketAnalyticsConfiguration",
      "GetBucketCors", "GetBucketEncryption",
      "ListBucketIntelligentTieringConfigurations", "GetBucketIntelligentTieringConfiguration",
      "ListBucketInventoryConfigurations", "GetBucketInventoryConfiguration",
      "GetBucketLifecycleConfiguration", "GetBucketLocation", "GetBucketLogging",
      "ListBucketMetricsConfigurations", "GetBucketMetricsConfiguration",
      "GetBucketNotificationConfiguration", "GetBucketOwnershipControls",
      "GetBucketPolicy", "GetBucketPolicyStatus", "GetBucketReplication",
      "GetBucketRequestPayment", "GetBucketTagging", "GetBucketVersioning">>

Position(s, x) == CHOOSE i \in DOMAIN s : s[i] = x

BodyPosition == [op \in Range(BodyOrder) |-> Position(BodyOrder, op)]

Rank(c) ==
    CASE c.op = "LoadDefaultConfig" -> 1
      [] c.op = "ListBuckets" -> 2
      [] c.op = "os.Create" -> 3 + Len(buckets) * Len(BodyOrder)
      [] c.op = "Encode" -> 4 + Len(buckets) * Len(BodyOrder)
      [] c.op = "Println" -> 5 + Len(buckets) * Len(BodyOrder)
      [] OTHER -> 2 + (Position(buckets, c.bucket) - 1) * Len(BodyOrder)
                    + BodyPosition[c.op]

IsFetchCall(c) == c.op \in {FetchOpOf[f] : f \in SliceFields}

Terminated == pc \in {"Done", "Fatal"}

\* What holds of every state of a run: the calls so far are in program order and
\* none was issued twice; the run has stopped exactly when it is Done or Fatal;
\* Fatal is the exit with status 1; Done is the exit with status 0 after every
\* call of the program order was issued, the Report holds the record of every
\* bucket not excluded and the file holds its encoding.
C10_Linear ==
    /\ \A i \in 1..(Len(calls) - 1) :
        \/ Rank(calls[i]) < Rank(calls[i + 1])
        \/ /\ Rank(calls[i]) = Rank(calls[i + 1])
           /\ IsFetchCall(calls[i])
    /\ Cardinality({<<calls[i].op, calls[i].bucket, calls[i].id>> : i \in DOMAIN calls})
         = Len(calls)
    /\ Terminated <=> ~ENABLED Next
    /\ exitCode = (IF pc = "Fatal" THEN 1 ELSE IF pc = "Done" THEN 0 ELSE -1)
    /\ pc = "Done" =>
        /\ \A op \in {"LoadDefaultConfig", "ListBuckets", "os.Create", "Encode", "Println"} :
             Count(op) = 1
        /\ LastCall.op = "Println"
        /\ \A k \in DOMAIN buckets :
             NotNamed(buckets[k]) => OncePerBucket \subseteq OpsIssuedFor(buckets[k])
        /\ ReportNames = SelectSeq(buckets, NotNamed)
        /\ file = FileIs("complete", JsonEncode(bucketInfos))

\* C10: every run stops, Done or Fatal, and all along it is as C10_Linear says.
C10_TerminatesOneOfTwoWays == []C10_Linear /\ <>Terminated

C10_Witness ==
    /\ pc = "Done"
    /\ Len(bucketInfos) = 2
    /\ Len(buckets) = 3
    /\ Len(calls) = 45

----
\* The basic variant

\* The calls of the basic loop body, in the order of the source.
BasicOrder ==
    <<"GetBucketAccelerateConfiguration", "GetBucketAcl",
      "GetBucketAnalyticsConfiguration", "GetBucketCors", "GetBucketEncryption",
      "GetBucketIntelligentTieringConfiguration", "GetBucketInventoryConfiguration",
      "GetBucketLifecycleConfiguration", "GetBucketLocation", "GetBucketLogging",
      "GetBucketMetricsConfiguration", "GetBucketNotificationConfiguration",
      "GetBucketOwnershipControls", "GetBucketPolicy", "GetBucketPolicyStatus",
      "GetBucketReplication", "GetBucketRequestPayment", "GetBucketTagging",
      "GetBucketVersioning">>

\* The field each call of the basic loop body fills.
BasicFieldOf ==
    [op \in Range(BasicOrder) |->
        CASE op = "GetBucketAccelerateConfiguration" -> "AccelerateConfig"
          [] op = "GetBucketAcl" -> "ACL"
          [] op = "GetBucketAnalyticsConfiguration" -> "AnalyticsConfig"
          [] op = "GetBucketCors" -> "CORSConfig"
          [] op = "GetBucketEncryption" -> "EncryptionConfig"
          [] op = "GetBucketIntelligentTieringConfiguration" -> "IntelligentTieringConfig"
          [] op = "GetBucketInventoryConfiguration" -> "InventoryConfig"
          [] op = "GetBucketLifecycleConfiguration" -> "LifecycleConfig"
          [] op = "GetBucketLocation" -> "Location"
          [] op = "GetBucketLogging" -> "LoggingConfig"
          [] op = "GetBucketMetricsConfiguration" -> "MetricsConfig"
          [] op = "GetBucketNotificationConfiguration" -> "NotificationConfig"
          [] op = "GetBucketOwnershipControls" -> "OwnershipControlsConfig"
          [] op = "GetBucketPolicy" -> "Policy"
          [] op = "GetBucketPolicyStatus" -> "PolicyStatus"
          [] op = "GetBucketReplication" -> "ReplicationConfig"
          [] op = "GetBucketRequestPayment" -> "RequestPaymentConfig"
          [] op = "GetBucketTagging" -> "TaggingConfig"
          [] op = "GetBucketVersioning" -> "VersioningConfig"]

\* The two calls of the basic loop body whose failure ends the process.
FatalSites == {"GetBucketAccelerateConfiguration", "GetBucketAcl"}

\* The other 17.
LoggedSites == Range(BasicOrder) \ FatalSites

\* The last call was a call of the loop body and failed.
BasicFailed(sites) ==
    /\ calls # <<>>
    /\ LastCall.op \in sites
    /\ err # NoErr

\* The statement after the call of op in the loop body.
BasicFollowing(op) ==
    IF op = BasicOrder[Len(BasicOrder)] THEN "append"
    ELSE BasicOrder[Position(BasicOrder, op) + 1]

\* C11: in the basic variant a failed accelerate-configuration or ACL call ends
\* the process with status 1 and nothing runs after it. A failed call of the
\* other 17 does not: the process goes on with the statement after the call, the
\* field of the call is nil in the bucket's BucketInfo, and that BucketInfo goes
\* into the Report. Every record of the Report is of a bucket for which all 19
\* calls were issued, the loop is left only with a record for every bucket, the
\* exit with status 0 comes with the file holding the encoding of the Report, and
\* the exit with status 1 comes only from a failure of LoadDefaultConfig,
\* ListBuckets, the accelerate-configuration call, the ACL call, os.Create or
\* Encode.
C11_BasicSiblingFailureIsLogged ==
    /\ BasicFailed(FatalSites) =>
        /\ pc = "Fatal"
        /\ exitCode = 1
        /\ ~ENABLED BasicNext
    /\ BasicFailed(LoggedSites) =>
        /\ exitCode = -1
        /\ ENABLED BasicNext
        /\ IF bucketInfo.Name = LastCall.bucket
           THEN /\ pc = BasicFollowing(LastCall.op)
                /\ bucketInfo[BasicFieldOf[LastCall.op]].nil
           ELSE /\ LastCall.op = "GetBucketVersioning"
                /\ pc \in {"BucketInfo", "GetBucketAccelerateConfiguration", "os.Create"}
                /\ bucketInfos # <<>>
                /\ bucketInfos[idx - (IF pc = "GetBucketAccelerateConfiguration" THEN 1 ELSE 0)].Name
                     = LastCall.bucket
                /\ bucketInfos[idx - (IF pc = "GetBucketAccelerateConfiguration" THEN 1 ELSE 0)]
                     .VersioningConfig.nil
    /\ \A j \in DOMAIN bucketInfos :
        /\ bucketInfos[j].Name = buckets[j]
        /\ OpsIssuedFor(buckets[j]) = Range(BasicOrder)
        /\ ~bucketInfos[j].AccelerateConfig.nil
        /\ ~bucketInfos[j].ACL.nil
    /\ pc \in AfterLoop => Len(bucketInfos) = Len(buckets)
    /\ pc = "Done" =>
        /\ exitCode = 0
        /\ file = FileIs("complete", BasicJsonEncode(bucketInfos))
    /\ pc = "Fatal" =>
        /\ exitCode = 1
        /\ err # NoErr
        /\ LastCall.op \in FatalSites \cup
                           {"LoadDefaultConfig", "ListBuckets", "os.Create", "Encode"}

\* A run that exits with status 0 after the CORS call of the first of two buckets
\* failed: the record of that bucket is in the Report with no CORSConfig and
\* with the fields of the calls after it.
C11_Witness ==
    /\ pc = "Done"
    /\ exitCode = 0
    /\ file.status = "complete"
    /\ Len(bucketInfos) = 2
    /\ bucketInfos[1].CORSConfig.nil
    /\ \A f \in BasicFields \ {"CORSConfig"} : ~bucketInfos[1][f].nil
    /\ \A f \in BasicFields : ~bucketInfos[2][f].nil

----
\* The Report

\* s is t or t with its last elements taken off.
IsPrefix(s, t) ==
    /\ Len(s) <= Len(t)
    /\ \A i \in DOMAIN s : s[i] = t[i]

\* What a step may do to the Report: leave it, or put one BucketInfo at its end.
\* It does the latter only with the BucketInfo of the current bucket, when the
\* last call issued is GetBucketVersioning for that bucket and has returned
\* (the step itself issues no call), every call of the loop body was issued for
\* the bucket and every listed configuration was fetched. After the loop the
\* Report stays as it is.
ReportStep ==
    /\ IsPrefix(bucketInfos, bucketInfos')
    /\ Len(bucketInfos') <= Len(bucketInfos) + 1
    /\ bucketInfos' # bucketInfos =>
        /\ bucketInfos'[Len(bucketInfos')] = bucketInfo
        /\ bucketInfo.Name = buckets[idx]
        /\ calls' = calls
        /\ LastCall.op = "GetBucketVersioning"
        /\ LastCall.bucket = bucketInfo.Name
        /\ OncePerBucket \subseteq OpsIssuedFor(bucketInfo.Name)
        /\ \A f \in SliceFields :
             Fetched(bucketInfo.Name, f) = Listed(bucketInfo.Name, f)
    /\ pc \in AfterLoop => bucketInfos' = bucketInfos

\* C12: the Report starts empty and every step leaves it a prefix of what it
\* becomes, so the Report of a state extends the Report of every earlier state
\* and no record in it is ever changed, by a later bucket or by Encode; a record
\* is put at its end only after the last call for its bucket has returned.
C12_ReportIsAppendOnly == bucketInfos = <<>> /\ [][ReportStep]_vars

\* A run that went through three buckets and the encode with the record of the
\* first bucket still first in the Report.
C12_Witness ==
    /\ pc = "Println"
    /\ Len(bucketInfos) = 3
    /\ bucketInfos[1].Name = buckets[1]
    /\ bucketInfos[1].Name = <<"b">>
    /\ file = FileIs("complete", JsonEncode(bucketInfos))

====
